---- MODULE Spec2Model ----
(***************************************************************************)
(* AES Integer Counter Mode on the HiSilicon cipher engine                 *)
(* (crypto/cipher/aes_icm_hisi.c).  The module's five entry points         *)
(* (alloc, dealloc, context_init, set_iv, encrypt) are the actions; the    *)
(* heap objects they own, the engine handles and the caller's buffer are   *)
(* the state.  AES itself is uninterpreted: a buffer is a plaintext        *)
(* together with the set of keystream prefixes that have been XORed into   *)
(* it, so two buffers are equal exactly when they are equal for every      *)
(* block cipher.                                                           *)
(***************************************************************************)
EXTENDS Integers, Sequences, FiniteSets, TLC

\* ------------------------------------------------------------------------
\* Bounds of the model
\* ------------------------------------------------------------------------
NumInst == 2
MaxKeyBufs == 2
MaxHandles == 2
MaxUsed == 3
MaxLayers == 2

\* ------------------------------------------------------------------------
\* Program constants
\* ------------------------------------------------------------------------
SRTP_AES_ICM_128_KEY_LEN_WSALT == 30
SRTP_AES_ICM_192_KEY_LEN_WSALT == 38
SRTP_AES_ICM_256_KEY_LEN_WSALT == 46
SRTP_AES_128_KEY_LEN == 16
SRTP_AES_192_KEY_LEN == 24
SRTP_AES_256_KEY_LEN == 32
SRTP_SALT_LEN == 14
SOUTBUF_SIZE == 8192
V128_LEN == 16
CTRL_KEY_LEN == 32

srtp_err_status_ok == "srtp_err_status_ok"
srtp_err_status_fail == "srtp_err_status_fail"
srtp_err_status_bad_param == "srtp_err_status_bad_param"
srtp_err_status_alloc_fail == "srtp_err_status_alloc_fail"
srtp_err_status_cipher_fail == "srtp_err_status_cipher_fail"
\* not a return value: the call ended in a failed assert()
aborted_by_assert == "abort"

\* the value of a field of freshly allocated (zero-filled) memory that the
\* code never assigned
UNSET == "unset"

\* ------------------------------------------------------------------------
\* Inputs
\* ------------------------------------------------------------------------
srtp_aes_icm_128_test_case_0_key ==
  <<43, 126, 21, 22, 40, 174, 210, 166, 171, 247, 21, 136, 9, 207, 79, 60,
    240, 241, 242, 243, 244, 245, 246, 247, 248, 249, 250, 251, 252, 253>>

srtp_aes_icm_192_test_case_0_key ==
  <<234, 178, 52, 118, 78, 81, 123, 45, 61, 22, 13, 88, 125, 140, 134, 33,
    151, 64, 246, 95, 153, 182, 188, 247,
    240, 241, 242, 243, 244, 245, 246, 247, 248, 249, 250, 251, 252, 253>>

srtp_aes_icm_256_test_case_0_key ==
  <<87, 248, 47, 227, 97, 63, 209, 112, 168, 94, 201, 60, 64, 177, 240, 146,
    46, 196, 203, 13, 192, 37, 181, 130, 114, 20, 124, 196, 56, 148, 74, 152,
    240, 241, 242, 243, 244, 245, 246, 247, 248, 249, 250, 251, 252, 253>>

srtp_aes_icm_test_case_0_nonce == [j \in 1..V128_LEN |-> 0]

\* a second key of each length: every byte set, salt included
AltKey(n) == [j \in 1..n |-> 255 - j]

TestKey(key_len) ==
  IF key_len = SRTP_AES_ICM_128_KEY_LEN_WSALT THEN srtp_aes_icm_128_test_case_0_key
  ELSE IF key_len = SRTP_AES_ICM_192_KEY_LEN_WSALT THEN srtp_aes_icm_192_test_case_0_key
  ELSE srtp_aes_icm_256_test_case_0_key

\* the key material a caller hands to context_init: key_len bytes
KeyMaterial(key_len, k) == IF k = "test" THEN TestKey(key_len) ELSE AltKey(key_len)

\* key lengths tried by the caller of alloc: the three valid ones, the raw
\* key lengths, and neighbours
KeyLens == {0, 16, 30, 31, 38, 46}

\* nonces: the self-test nonce, and one with every byte set (block-counter
\* bytes included)
NonceFull == [j \in 1..V128_LEN |-> 15 * j + 1]
Nonces == {srtp_aes_icm_test_case_0_nonce, NonceFull}

Dirs == {"srtp_direction_encrypt", "srtp_direction_decrypt"}

\* lengths handed to encrypt: nothing, the self-test length, and the three
\* lengths around the staging buffer's size
Lens == {0, 32, SOUTBUF_SIZE - 1, SOUTBUF_SIZE, SOUTBUF_SIZE + 1}


Inst == 1..NumInst
KeyBufIds == 1..MaxKeyBufs
HandleIds == 1..MaxHandles

\* ------------------------------------------------------------------------
\* Bytes and 128-bit blocks (datatypes.h)
\* ------------------------------------------------------------------------
\* bit k of the exclusive or of two octets
XorBit(a, b, k) == ((a \div k) + (b \div k)) % 2

XorByte(a, b) ==
  XorBit(a, b, 1) + 2 * XorBit(a, b, 2) + 4 * XorBit(a, b, 4)
  + 8 * XorBit(a, b, 8) + 16 * XorBit(a, b, 16) + 32 * XorBit(a, b, 32)
  + 64 * XorBit(a, b, 64) + 128 * XorBit(a, b, 128)

v128_set_to_zero == [j \in 1..V128_LEN |-> 0]

v128_copy_octet_string(s) == [j \in 1..V128_LEN |-> s[j]]

v128_xor(a, b) == [j \in 1..V128_LEN |-> XorByte(a[j], b[j])]

\* ------------------------------------------------------------------------
\* State
\* ------------------------------------------------------------------------
VARIABLES
  host,     \* what the host does: the instances it drives, the key lengths
            \* it allocates with, the lengths it encrypts
  cref,     \* cref[i]: the caller's srtp_cipher_t* variable handed to alloc
  cipher,   \* cipher[i]: the srtp_cipher_t object on the heap
  ctx,      \* ctx[i]: the srtp_aes_icm_ctx_t object on the heap
  keymem,   \* keymem[b]: the key buffers obtained with malloc
  engine,   \* engine[h]: the cipher engine's handles
  buf,      \* buf[i]: the caller's data buffer
  last,     \* the last call: operation, arguments, result
  aborted,  \* the process ended in a failed assert()
  pkt,      \* history: pkt[i] tells when buf[i] is the output of one encrypt
            \* of a fresh plaintext made directly after a successful set_iv
  memo      \* history: memo[i] is the first such output since instance i
            \* was keyed

vars == <<host, cref, cipher, ctx, keymem, engine, buf, last, aborted,
          pkt, memo>>

\* srtp_crypto_alloc returns zero-filled memory
NoCipher == [live |-> FALSE, algorithm |-> UNSET, type |-> UNSET,
             key_len |-> 0, state |-> FALSE]
FreshCipher == [NoCipher EXCEPT !.live = TRUE]

NoCtx == [live |-> FALSE, key_size |-> 0, key |-> 0, key_type |-> UNSET,
          offset |-> v128_set_to_zero, counter |-> v128_set_to_zero,
          hCipher |-> 0]
FreshCtx == [NoCtx EXCEPT !.live = TRUE]

NoBuf == [live |-> FALSE, bytes |-> <<>>]

NoCtrl == [set |-> FALSE, enAlg |-> UNSET, enKeyLen |-> UNSET,
           enWorkMode |-> UNSET, u32Key |-> <<>>, u32IV |-> <<>>]
NoHandle == [live |-> FALSE, ctrl |-> NoCtrl, used |-> 0]
FreshHandle == [NoHandle EXCEPT !.live = TRUE]

Plain(x) == [x |-> x, ks |-> {}]

NoCall == [op |-> "none", inst |-> 0, ret |-> "none", key_len |-> 0,
           key |-> <<>>, nonce |-> <<>>, dir |-> "none", len |-> 0,
           fresh |-> FALSE, null |-> FALSE, engine |-> FALSE,
           freed |-> <<>>, fail |-> "none", res |-> "none"]

\* the objects of a process that has not allocated anything
NoObjects ==
  /\ cref' = [i \in Inst |-> "unset"]
  /\ cipher' = [i \in Inst |-> NoCipher]
  /\ ctx' = [i \in Inst |-> NoCtx]
  /\ keymem' = [b \in KeyBufIds |-> NoBuf]
  /\ engine' = [h \in HandleIds |-> NoHandle]

\* a failed assert() ends the process: its heap and its handles are gone
Abort(call) ==
  /\ aborted' = TRUE
  /\ NoObjects
  /\ last' = [call EXCEPT !.ret = aborted_by_assert, !.fresh = FALSE]
  /\ UNCHANGED host

NoPkt == [valid |-> FALSE, nonce |-> <<>>, len |-> 0]
NoMemo == [set |-> FALSE, nonce |-> <<>>, len |-> 0, out |-> Plain("P0"),
           between |-> FALSE]

InitVars ==
  /\ cref = [i \in Inst |-> "unset"]
  /\ cipher = [i \in Inst |-> NoCipher]
  /\ ctx = [i \in Inst |-> NoCtx]
  /\ keymem = [b \in KeyBufIds |-> NoBuf]
  /\ engine = [h \in HandleIds |-> NoHandle]
  /\ buf = [i \in Inst |-> Plain("P0")]
  /\ last = NoCall
  /\ aborted = FALSE
  /\ pkt = [i \in Inst |-> NoPkt]
  /\ memo = [i \in Inst |-> NoMemo]

\* one instance driven through its whole life cycle with every key length,
\* the self-test keys, both nonces and the self-test length
Init ==
  /\ host = [insts |-> {1}, key_lens |-> KeyLens,
             keys |-> [i \in Inst |-> {"test"}],
             nonces |-> [i \in Inst |-> Nonces], dirs |-> Dirs, fresh |-> BOOLEAN,
             enc_lens |-> {0, 32}, track |-> FALSE]
  /\ InitVars

\* one AES-128 instance and every length around the staging buffer's size
InitLen ==
  /\ host = [insts |-> {1}, key_lens |-> {SRTP_AES_ICM_128_KEY_LEN_WSALT},
             keys |-> [i \in Inst |-> {"test"}],
             nonces |-> [i \in Inst |-> {srtp_aes_icm_test_case_0_nonce}],
             dirs |-> Dirs, fresh |-> BOOLEAN, enc_lens |-> Lens, track |-> FALSE]
  /\ InitVars

\* one instance that is keyed and keyed again with different keys, with the
\* history of its packets kept
InitRekey ==
  /\ host = [insts |-> {1},
             key_lens |-> {SRTP_AES_ICM_128_KEY_LEN_WSALT},
             keys |-> [i \in Inst |-> {"test", "alt"}],
             nonces |-> [i \in Inst |-> Nonces], dirs |-> Dirs, fresh |-> BOOLEAN,
             enc_lens |-> {0, 32}, track |-> TRUE]
  /\ InitVars

\* two AES-128 instances, each with a key and a nonce of its own and a new
\* packet for every encrypt, their calls interleaved in every order
InitTwo ==
  /\ host = [insts |-> {1, 2},
             key_lens |-> {SRTP_AES_ICM_128_KEY_LEN_WSALT},
             keys |-> [i \in Inst |-> IF i = 1 THEN {"test"} ELSE {"alt"}],
             nonces |-> [i \in Inst |->
                           IF i = 1 THEN {srtp_aes_icm_test_case_0_nonce}
                           ELSE {NonceFull}],
             dirs |-> {"srtp_direction_encrypt"}, fresh |-> {TRUE},
             enc_lens |-> {32}, track |-> FALSE]
  /\ InitVars

\* ------------------------------------------------------------------------
\* srtp_aes_icm_hisi_alloc
\* ------------------------------------------------------------------------
ValidKeyLenAtLeast(key_len) == key_len >= SRTP_AES_ICM_128_KEY_LEN_WSALT

ValidKeyLen(key_len) ==
  ~ (/\ key_len # SRTP_AES_ICM_128_KEY_LEN_WSALT
     /\ key_len # SRTP_AES_ICM_192_KEY_LEN_WSALT
     /\ key_len # SRTP_AES_ICM_256_KEY_LEN_WSALT)

\* the switch that sets the cipher parameters; the 192 case is an empty
\* case (its three assignments are commented out), so the fields keep what
\* the allocator put there
AllocParams(c, icm, key_len) ==
  IF key_len = SRTP_AES_ICM_128_KEY_LEN_WSALT
  THEN [algorithm |-> "SRTP_AES_ICM_128", type |-> "srtp_aes_icm_128",
        key_size |-> SRTP_AES_128_KEY_LEN]
  ELSE IF key_len = SRTP_AES_ICM_192_KEY_LEN_WSALT
  THEN [algorithm |-> c.algorithm, type |-> c.type, key_size |-> icm.key_size]
  ELSE IF key_len = SRTP_AES_ICM_256_KEY_LEN_WSALT
  THEN [algorithm |-> "SRTP_AES_ICM_256", type |-> "srtp_aes_icm_256",
        key_size |-> SRTP_AES_256_KEY_LEN]
  ELSE [algorithm |-> c.algorithm, type |-> c.type, key_size |-> icm.key_size]

\* where the call can fail: the two allocations, HI_UNF_CIPHER_Init,
\* HI_UNF_CIPHER_CreateHandle
AllocFailures == {"none", "cipher", "ctx", "init", "handle"}

\* HI_UNF_CIPHER_CreateHandle hands out a handle that is not in use
CreateHandleResults(eng) ==
  LET free == {h \in HandleIds : ~eng[h].live}
  IN {h \in free : \A g \in free : h <= g}

\* the objects the call holds when it fails at a given point
AllocHeld(fail) ==
  [cipher |-> fail \in {"ctx", "handle"}, ctx |-> fail = "handle"]

\* what a failure path does before it returns: which objects it frees and
\* whether *c ends up NULL
AllocRollbackKeepsCtx(fail) ==
  [free_cipher |-> fail \in {"ctx", "handle"}, free_ctx |-> FALSE,
   null_ref |-> TRUE]

AllocRollback(fail) ==
  [free_cipher |-> fail \in {"ctx", "handle"}, free_ctx |-> fail = "handle",
   null_ref |-> TRUE]

\* res = HI_UNF_CIPHER_CreateHandle(&icm->hCipher, &stCipherAttr)
StoreHandleShared(icm, h) == [icm EXCEPT !.hCipher = 1]

StoreHandle(icm, h) == [icm EXCEPT !.hCipher = h]

srtp_aes_icm_hisi_alloc(i, key_len, fail) ==
  /\ ~aborted
  /\ i \in host.insts
  /\ ~cipher[i].live
  /\ LET call == [NoCall EXCEPT !.op = "alloc", !.inst = i, !.key_len = key_len,
                                !.fail = IF ValidKeyLen(key_len) THEN fail
                                         ELSE "none"]
     IN
     IF ~ValidKeyLen(key_len)
     THEN /\ last' = [call EXCEPT !.ret = srtp_err_status_bad_param]
          /\ UNCHANGED <<host, cref, cipher, ctx, keymem, engine, aborted>>
     ELSE IF fail = "init"
     THEN \* assert(res == 0) fails with both objects allocated
          Abort(call)
     ELSE IF fail \in {"cipher", "ctx", "handle"}
     THEN \* "cipher": *c = srtp_crypto_alloc(...) stored NULL;
          \* "ctx": srtp_crypto_free(*c); *c = NULL;
          \* "handle": srtp_crypto_free(icm); srtp_crypto_free(*c); *c = NULL
          LET held == AllocHeld(fail)
              rb == AllocRollback(fail)
          IN /\ cref' = [cref EXCEPT ![i] = IF held.cipher /\ ~rb.null_ref
                                            THEN "ptr" ELSE "null"]
             /\ cipher' = [cipher EXCEPT ![i] =
                             IF held.cipher /\ ~rb.free_cipher
                             THEN FreshCipher ELSE NoCipher]
             /\ ctx' = [ctx EXCEPT ![i] =
                          IF held.ctx /\ ~rb.free_ctx
                          THEN FreshCtx ELSE NoCtx]
             /\ last' = [call EXCEPT !.ret = srtp_err_status_alloc_fail]
             /\ UNCHANGED <<host, keymem, engine, aborted>>
     ELSE \E h \in CreateHandleResults(engine) :
          /\ LET p == AllocParams(FreshCipher, FreshCtx, key_len)
             IN /\ cipher' = [cipher EXCEPT ![i] =
                      [FreshCipher EXCEPT !.state = TRUE,
                                          !.algorithm = p.algorithm,
                                          !.type = p.type,
                                          !.key_len = key_len]]
                /\ ctx' = [ctx EXCEPT ![i] =
                      [StoreHandle(FreshCtx, h) EXCEPT !.key_size = p.key_size]]
          /\ engine' = [engine EXCEPT ![h] = FreshHandle]
          /\ cref' = [cref EXCEPT ![i] = "ptr"]
          /\ last' = [call EXCEPT !.ret = srtp_err_status_ok]
          /\ UNCHANGED <<host, keymem, aborted>>

\* the host starts on a new packet buffer whenever it allocates, keys or
\* deallocates an instance
NewPacket(i) ==
  /\ buf' = [buf EXCEPT ![i] = Plain("P0")]
  /\ pkt' = [pkt EXCEPT ![i] = NoPkt]
  /\ memo' = [memo EXCEPT ![i] = NoMemo]

Alloc == \E i \in Inst, key_len \in host.key_lens, fail \in AllocFailures :
           srtp_aes_icm_hisi_alloc(i, key_len, fail) /\ NewPacket(i)

\* ------------------------------------------------------------------------
\* srtp_aes_icm_hisi_dealloc
\* ------------------------------------------------------------------------
\* HI_UNF_CIPHER_DestroyHandle can fail; the code asserts that it does not
DestroyResults == {"ok", "error"}

\* if (c == NULL) return srtp_err_status_bad_param
DeallocCheckWrongStatus(null) ==
  IF null THEN srtp_err_status_fail ELSE srtp_err_status_ok

DeallocCheck(null) ==
  IF null THEN srtp_err_status_bad_param ELSE srtp_err_status_ok

srtp_aes_icm_hisi_dealloc(i, null, res) ==
  /\ ~aborted
  /\ i \in host.insts
  /\ LET call == [NoCall EXCEPT !.op = "dealloc", !.inst = i, !.null = null,
                                !.res = IF ~null /\ cipher[i].state THEN res
                                        ELSE "none"]
     IN
     IF DeallocCheck(null) # srtp_err_status_ok
     THEN /\ last' = [call EXCEPT !.ret = DeallocCheck(null)]
          /\ UNCHANGED <<host, cref, cipher, ctx, keymem, engine, aborted>>
     ELSE /\ cipher[i].live
          /\ IF cipher[i].state /\ res = "error"
             THEN \* assert(res == 0) fails
                  Abort(call)
             ELSE \* the handle is destroyed, the context is zeroed and freed,
                  \* the cipher is freed; the key buffer is not touched
                  /\ engine' = IF cipher[i].state
                               THEN [engine EXCEPT ![ctx[i].hCipher] = NoHandle]
                               ELSE engine
                  /\ ctx' = IF cipher[i].state
                            THEN [ctx EXCEPT ![i] = NoCtx] ELSE ctx
                  /\ cipher' = [cipher EXCEPT ![i] = NoCipher]
                  /\ last' = [call EXCEPT !.ret = srtp_err_status_ok]
                  /\ UNCHANGED <<host, cref, keymem, aborted>>

Dealloc == \E i \in Inst, null \in BOOLEAN, res \in DestroyResults :
             srtp_aes_icm_hisi_dealloc(i, null, res) /\ NewPacket(i)

\* ------------------------------------------------------------------------
\* srtp_aes_icm_hisi_context_init
\* ------------------------------------------------------------------------
\* offset and counter: zeroed, the salt copied from behind the raw key, the
\* last two octets forced to zero
SaltBlockCopy16(key, key_size) ==
  [j \in 1..V128_LEN |->
     IF key_size + j <= Len(key) THEN key[key_size + j] ELSE 170]

SaltBlock(key, key_size) ==
  LET zeroed == v128_set_to_zero
      copied == [j \in 1..V128_LEN |->
                   IF j <= SRTP_SALT_LEN THEN key[key_size + j] ELSE zeroed[j]]
  IN [j \in 1..V128_LEN |-> IF j > SRTP_SALT_LEN THEN 0 ELSE copied[j]]

\* the switch on key_size; "default" is the branch that returns bad_param
KeyTypeOf(key_size) ==
  IF key_size = SRTP_AES_256_KEY_LEN THEN "HI_UNF_CIPHER_KEY_AES_256BIT"
  ELSE IF key_size = SRTP_AES_192_KEY_LEN THEN "HI_UNF_CIPHER_KEY_AES_192BIT"
  ELSE IF key_size = SRTP_AES_128_KEY_LEN THEN "HI_UNF_CIPHER_KEY_AES_128BIT"
  ELSE "default"

\* what free(c->key) leaves of the key buffers
FreeKey(mem, k) == IF k # 0 THEN [mem EXCEPT ![k] = NoBuf] ELSE mem

\* the addresses malloc(size) can return: an unused buffer, and for a size
\* of zero also NULL
MallocResults(mem, size) ==
  LET free == {b \in KeyBufIds : ~mem[b].live}
  IN {b \in free : \A a \in free : b <= a} \cup (IF size = 0 THEN {0} ELSE {})

RawKey(key, key_size) == SubSeq(key, 1, key_size)

srtp_aes_icm_hisi_context_init(i, key) ==
  /\ ~aborted
  /\ i \in host.insts
  /\ ctx[i].live
  /\ LET c == ctx[i]
         call == [NoCall EXCEPT !.op = "init", !.inst = i, !.key = key]
         mem1 == FreeKey(keymem, c.key)
         freed == IF c.key # 0 THEN <<keymem[c.key].bytes>> ELSE <<>>
         kt == KeyTypeOf(c.key_size)
     IN \E b \in MallocResults(mem1, c.key_size) :
          /\ keymem' = IF b # 0
                       THEN [mem1 EXCEPT ![b] =
                               [live |-> TRUE, bytes |-> RawKey(key, c.key_size)]]
                       ELSE mem1
          /\ ctx' = [ctx EXCEPT ![i] =
                       [c EXCEPT !.offset = SaltBlock(key, c.key_size),
                                 !.counter = SaltBlock(key, c.key_size), !.key = b,
                                 !.key_type = IF kt = "default" THEN @ ELSE kt]]
          /\ last' = [call EXCEPT !.freed = freed,
                        !.ret = IF kt = "default" THEN srtp_err_status_bad_param
                                ELSE srtp_err_status_ok]
          /\ UNCHANGED <<host, cref, cipher, engine, aborted>>

ContextInit == \E i \in Inst :
                 \E k \in host.keys[i] :
                   /\ srtp_aes_icm_hisi_context_init(i, KeyMaterial(cipher[i].key_len, k))
                   /\ NewPacket(i)

\* ------------------------------------------------------------------------
\* srtp_aes_icm_hisi_set_iv
\* ------------------------------------------------------------------------
SetIvCheckWrongStatus(c) ==
  IF c.key = 0 THEN srtp_err_status_fail ELSE srtp_err_status_ok

\* the state must hold a key
SetIvCheck(c) ==
  IF c.key = 0 THEN srtp_err_status_bad_param ELSE srtp_err_status_ok

SetIvCounterSalt(c, iv) ==
  [j \in 1..V128_LEN |->
     IF j <= SRTP_SALT_LEN THEN XorByte(c.offset[j], iv[j]) ELSE c.offset[j]]

SetIvCounterFromCounter(c, iv) == v128_xor(c.counter, v128_copy_octet_string(iv))

\* nonce = iv; counter = offset ^ nonce
SetIvCounter(c, iv) ==
  LET nonce == v128_copy_octet_string(iv) IN v128_xor(c.offset, nonce)

\* the HI_UNF_CIPHER_CTRL_S handed to the engine: zeroed, then filled from
\* the context (keybytes is what c->key points to, counter the new counter)
MakeCtrl(c, keybytes, counter) ==
  [set |-> TRUE,
   enAlg |-> "HI_UNF_CIPHER_ALG_AES",
   enKeyLen |-> c.key_type,
   enWorkMode |-> "HI_UNF_CIPHER_WORK_MODE_CTR",
   u32Key |-> [j \in 1..CTRL_KEY_LEN |->
                 IF j <= c.key_size THEN keybytes[j] ELSE 0],
   u32IV |-> [j \in 1..V128_LEN |-> counter[j]]]

\* HI_UNF_CIPHER_ConfigHandle can reject the configuration
ConfigResults == {"ok", "error"}

SetIvStatus(res) ==
  IF res # "ok" THEN srtp_err_status_fail ELSE srtp_err_status_ok

srtp_aes_icm_hisi_set_iv(i, iv, dir, res) ==
  /\ ~aborted
  /\ i \in host.insts
  /\ ctx[i].live
  /\ LET c == ctx[i]
         call == [NoCall EXCEPT !.op = "set_iv", !.inst = i, !.nonce = iv,
                                !.dir = dir]
     IN
     IF SetIvCheck(c) # srtp_err_status_ok
     THEN /\ last' = [call EXCEPT !.ret = SetIvCheck(c)]
          /\ UNCHANGED <<host, cref, cipher, ctx, keymem, engine, buf, aborted>>
     ELSE LET stCtrl == MakeCtrl(c, keymem[c.key].bytes, ctx'[i].counter)
          IN /\ ctx' = [ctx EXCEPT ![i].counter = SetIvCounter(c, iv)]
             /\ engine' = IF res = "ok"
                          THEN [engine EXCEPT ![c.hCipher].ctrl = stCtrl,
                                              ![c.hCipher].used = 0]
                          ELSE engine
             /\ last' = [call EXCEPT !.ret = SetIvStatus(res), !.res = res]
             /\ UNCHANGED <<host, cref, cipher, keymem, buf, aborted>>

SetIv == \E i \in Inst, dir \in host.dirs, res \in ConfigResults :
         \E iv \in host.nonces[i] :
           srtp_aes_icm_hisi_set_iv(i, iv, dir, res) /\ UNCHANGED <<pkt, memo>>

\* ------------------------------------------------------------------------
\* The engine's counter mode (HI_UNF_CIPHER_EncryptVir)
\* ------------------------------------------------------------------------
\* the configured IV with its block-counter field (the last two octets,
\* big-endian) advanced by n blocks
CounterAdd(iv, n) ==
  LET ctr == (256 * iv[V128_LEN - 1] + iv[V128_LEN] + n) % 65536
  IN [j \in 1..V128_LEN |->
        IF j = V128_LEN - 1 THEN ctr \div 256
        ELSE IF j = V128_LEN THEN ctr % 256
        ELSE iv[j]]

BlocksOf(len) == (len + 15) \div 16

\* the keystream a handle produces next: AES under the configured key of
\* the counter blocks from the current one on; a handle that was never
\* configured produces a keystream of its own
KeyStream(h) ==
  IF h.ctrl.set
  THEN [key |-> h.ctrl.u32Key, keylen |-> h.ctrl.enKeyLen,
        cb |-> CounterAdd(h.ctrl.u32IV, h.used)]
  ELSE [key |-> <<>>, keylen |-> UNSET, cb |-> <<>>]

\* XOR the first len octets of keystream s into buffer b
XorStream(b, s, len) ==
  [b EXCEPT !.ks = IF <<s, len>> \in @ THEN @ \ {<<s, len>>}
                   ELSE @ \cup {<<s, len>>}]

\* ------------------------------------------------------------------------
\* srtp_aes_icm_hisi_encrypt
\* ------------------------------------------------------------------------
\* assert(*enc_len < sizeof(soutbuf))
LenAssert(enc_len) == enc_len < SOUTBUF_SIZE

IsNoopNever(enc_len) == enc_len < 0

\* if (!*enc_len) return srtp_err_status_ok
IsNoop(enc_len) == enc_len = 0

EncryptResults == {"ok", "error"}

\* the buffer a caller hands in: a fresh plaintext, or what the last call
\* left in its buffer
InBuf(i, fresh) == IF fresh THEN Plain("P0") ELSE buf[i]

\* the context after a call that reached the engine: c is only read (the
\* handle), the block counter advances inside the engine
EncryptCtxCounts(c, enc_len) ==
  [c EXCEPT !.counter = CounterAdd(c.counter, BlocksOf(enc_len))]

EncryptCtx(c, enc_len) == c

srtp_aes_icm_hisi_encrypt(i, fresh, enc_len, res) ==
  /\ ~aborted
  /\ i \in host.insts
  /\ ctx[i].live
  /\ LET c == ctx[i]
         h == engine[c.hCipher]
         inbuf == InBuf(i, fresh)
         call == [NoCall EXCEPT !.op = "encrypt", !.inst = i, !.len = enc_len,
                                !.fresh = fresh]
     IN
     IF ~LenAssert(enc_len)
     THEN Abort(call) /\ buf' = [buf EXCEPT ![i] = Plain("P0")]
     ELSE IF IsNoop(enc_len)
     THEN /\ buf' = [buf EXCEPT ![i] = inbuf]
          /\ last' = [call EXCEPT !.ret = srtp_err_status_ok]
          /\ UNCHANGED <<host, cref, cipher, ctx, keymem, engine, aborted>>
     ELSE IF res # "ok"
     THEN /\ buf' = [buf EXCEPT ![i] = inbuf]
          /\ last' = [call EXCEPT !.ret = srtp_err_status_cipher_fail,
                                  !.engine = TRUE, !.res = res]
          /\ ctx' = [ctx EXCEPT ![i] = EncryptCtx(c, enc_len)]
          /\ UNCHANGED <<host, cref, cipher, keymem, engine, aborted>>
     ELSE LET soutbuf == XorStream(inbuf, KeyStream(h), enc_len)
          IN /\ h.used < MaxUsed
             /\ Cardinality(soutbuf.ks) <= MaxLayers
             /\ buf' = [buf EXCEPT ![i] = soutbuf]
             /\ engine' = [engine EXCEPT ![c.hCipher].used =
                                           @ + BlocksOf(enc_len)]
             /\ last' = [call EXCEPT !.ret = srtp_err_status_ok,
                                     !.engine = TRUE, !.res = res]
             /\ ctx' = [ctx EXCEPT ![i] = EncryptCtx(c, enc_len)]
             /\ UNCHANGED <<host, cref, cipher, keymem, aborted>>

\* the call before this one was a successful set_iv on instance i
Direct(i) ==
  last.op = "set_iv" /\ last.inst = i /\ last.ret = srtp_err_status_ok

\* book-keeping of what the buffer of instance i holds after an encrypt
Observe(i) ==
  LET done == last'.ret = srtp_err_status_ok /\ last'.len > 0 /\ ~aborted'
      first == done /\ Direct(i) /\ last'.fresh /\ host.track
  IN /\ pkt' = [pkt EXCEPT ![i] =
                  IF first
                  THEN [valid |-> TRUE, nonce |-> last.nonce, len |-> last'.len]
                  ELSE IF done \/ last'.fresh \/ aborted' THEN NoPkt
                  ELSE @]
     /\ memo' = [memo EXCEPT ![i] =
                  IF aborted' THEN NoMemo
                  ELSE IF first /\ ~@.set
                  THEN [set |-> TRUE, nonce |-> last.nonce, len |-> last'.len,
                        out |-> buf'[i], between |-> FALSE]
                  ELSE IF first /\ @.set /\ last.nonce # @.nonce
                  THEN [@ EXCEPT !.between = TRUE]
                  ELSE @]

Encrypt == \E i \in Inst, enc_len \in host.enc_lens, res \in EncryptResults :
             \E fresh \in host.fresh :
               srtp_aes_icm_hisi_encrypt(i, fresh, enc_len, res) /\ Observe(i)

Next == Alloc \/ Dealloc \/ ContextInit \/ SetIv \/ Encrypt

Spec == Init /\ [][Next]_vars

SpecLen == InitLen /\ [][Next]_vars

SpecRekey == InitRekey /\ [][Next]_vars

SpecTwo == InitTwo /\ [][Next]_vars
\* ------------------------------------------------------------------------
\* Properties
\* ------------------------------------------------------------------------
\* bit k (1, 2, 4, ... 128) of an octet
BitOf(x, k) == (x \div k) % 2

\* c is the byte-wise exclusive or of the 16-octet blocks a and b
IsXorOf(c, a, b) ==
  \A j \in 1..16 : \A k \in {1, 2, 4, 8, 16, 32, 64, 128} :
    BitOf(c[j], k) = 1 <=> (BitOf(a[j], k) # BitOf(b[j], k))

AcceptedKeyLens == {30, 38, 46}

\* raw AES key length and engine key variant of a combined key length
RawLenOf(key_len) == key_len - 14

VariantOf(key_len) ==
  IF key_len = 30 THEN "HI_UNF_CIPHER_KEY_AES_128BIT"
  ELSE IF key_len = 38 THEN "HI_UNF_CIPHER_KEY_AES_192BIT"
  ELSE "HI_UNF_CIPHER_KEY_AES_256BIT"

AlgorithmOf(key_len) ==
  IF key_len = 30 THEN "SRTP_AES_ICM_128"
  ELSE IF key_len = 38 THEN "SRTP_AES_ICM_192"
  ELSE "SRTP_AES_ICM_256"

\* the engine is configured for AES counter mode with this key, key variant
\* and IV
ConfiguredWith(ctrl, keybytes, variant, iv) ==
  /\ ctrl.set
  /\ ctrl.enAlg = "HI_UNF_CIPHER_ALG_AES"
  /\ ctrl.enWorkMode = "HI_UNF_CIPHER_WORK_MODE_CTR"
  /\ ctrl.enKeyLen = variant
  /\ SubSeq(ctrl.u32Key, 1, Len(keybytes)) = keybytes
  /\ \A j \in (Len(keybytes) + 1)..Len(ctrl.u32Key) : ctrl.u32Key[j] = 0
  /\ ctrl.u32IV = iv

\* C1: alloc with a key length other than 30, 38, 46 returns bad_param and
\* allocates nothing: no cipher, no context, no key buffer, no engine handle,
\* and the caller's reference keeps its value.
C1_InvalidKeyLenRejected ==
  [][(last'.op = "alloc" /\ last'.key_len \notin AcceptedKeyLens)
       => /\ last'.ret = srtp_err_status_bad_param
          /\ cipher' = cipher /\ ctx' = ctx /\ keymem' = keymem
          /\ engine' = engine /\ cref' = cref /\ ~aborted']_vars

C1_Witness ==
  /\ last.op = "alloc" /\ last.key_len = 31
  /\ last.ret = srtp_err_status_bad_param
  /\ cref[1] = "unset" /\ ~cipher[1].live /\ ~ctx[1].live

\* C2: after a successful alloc with key length 30, 38 or 46 the context's
\* key_size is 16, 24 or 32 and the cipher's algorithm and type are those of
\* that variant.
C2_AllocSetsKeySizeAndBinding ==
  \A i \in Inst :
    (last.op = "alloc" /\ last.inst = i /\ last.ret = srtp_err_status_ok)
      => /\ ctx[i].key_size = RawLenOf(last.key_len)
         /\ cipher[i].algorithm = AlgorithmOf(last.key_len)
         /\ cipher[i].type # UNSET

\* C3: for each variant alloc, context_init, set_iv, encrypt succeed in
\* turn when the engine does not fail: context_init stores the raw key and
\* the salt followed by two zero octets, and at the time of the encrypt the
\* engine is configured with that key, the variant of the key length, and
\* the IV offset XOR nonce.
C3_InitStep ==
  \A i \in Inst :
    (last.op = "init" /\ last.inst = i)
      => /\ last.ret = srtp_err_status_ok
         /\ ctx[i].key # 0
         /\ keymem[ctx[i].key].bytes
              = SubSeq(last.key, 1, RawLenOf(cipher[i].key_len))
         /\ ctx[i].offset
              = [j \in 1..16 |->
                   IF j <= 14 THEN last.key[RawLenOf(cipher[i].key_len) + j]
                   ELSE 0]

C3_SetIvStep ==
  (last'.op = "set_iv" /\ last.op = "init" /\ last.inst = last'.inst
     /\ last'.ret # srtp_err_status_fail)
    => last'.ret = srtp_err_status_ok

C3_EncryptStep ==
  \A i \in Inst :
    (last'.op = "encrypt" /\ last'.inst = i /\ last'.len > 0
       /\ last.op = "set_iv" /\ last.inst = i
       /\ last.ret = srtp_err_status_ok
       /\ last'.ret # srtp_err_status_cipher_fail)
      => /\ last'.ret = srtp_err_status_ok
         /\ ConfiguredWith(engine[ctx[i].hCipher].ctrl,
                           keymem[ctx[i].key].bytes,
                           VariantOf(cipher[i].key_len),
                           ctx[i].counter)
         /\ Len(keymem[ctx[i].key].bytes) = RawLenOf(cipher[i].key_len)
         /\ IsXorOf(ctx[i].counter, ctx[i].offset, last.nonce)

C3_SelfTestSequence ==
  [][C3_InitStep' /\ C3_SetIvStep /\ C3_EncryptStep]_vars

\* C4 as stated: after a successful context_init and after a successful
\* set_iv the last two octets of offset and of counter are zero.
C4_BlockCounterZero ==
  \A i \in Inst :
    (last.inst = i /\ last.op \in {"init", "set_iv"}
       /\ last.ret = srtp_err_status_ok)
      => /\ ctx[i].offset[15] = 0 /\ ctx[i].offset[16] = 0
         /\ ctx[i].counter[15] = 0 /\ ctx[i].counter[16] = 0

\* C4 amended: after a successful context_init the last two octets of
\* offset and of counter are zero; after a successful set_iv the last two
\* octets of offset are zero and those of counter are the last two octets of
\* the nonce.
C4_BlockCounterAfterInitAndSetIv ==
  \A i \in Inst :
    /\ (last.inst = i /\ last.op = "init" /\ last.ret = srtp_err_status_ok)
         => /\ ctx[i].offset[15] = 0 /\ ctx[i].offset[16] = 0
            /\ ctx[i].counter[15] = 0 /\ ctx[i].counter[16] = 0
    /\ (last.inst = i /\ last.op = "set_iv" /\ last.ret = srtp_err_status_ok)
         => /\ ctx[i].offset[15] = 0 /\ ctx[i].offset[16] = 0
            /\ ctx[i].counter[15] = last.nonce[15]
            /\ ctx[i].counter[16] = last.nonce[16]

C4_Witness ==
  /\ last.op = "set_iv" /\ last.ret = srtp_err_status_ok
  /\ last.nonce = NonceFull
  /\ ctx[1].counter[16] # 0 /\ ctx[1].offset[16] = 0

\* C5: after set_iv on a state that holds a key, counter is the byte-wise
\* XOR of offset and the nonce over all 16 octets, and when the engine
\* accepted the configuration it holds AES, counter mode, the stored key,
\* the stored key variant and this counter as IV; for either direction.
C5_SetIvCounterAndConfig ==
  \A i \in Inst :
    (last.op = "set_iv" /\ last.inst = i
       /\ last.ret # srtp_err_status_bad_param)
      => /\ IsXorOf(ctx[i].counter, ctx[i].offset, last.nonce)
         /\ last.ret = srtp_err_status_ok
              => /\ ConfiguredWith(engine[ctx[i].hCipher].ctrl,
                                   keymem[ctx[i].key].bytes,
                                   ctx[i].key_type, ctx[i].counter)
                 /\ Len(keymem[ctx[i].key].bytes) = ctx[i].key_size

C5_Witness ==
  /\ last.op = "set_iv" /\ last.ret = srtp_err_status_ok
  /\ last.dir = "srtp_direction_decrypt" /\ last.nonce = NonceFull
  /\ ctx[1].key_size = 32
  /\ ctx[1].counter # ctx[1].offset
  /\ engine[ctx[1].hCipher].ctrl.u32IV = ctx[1].counter

\* C6: set_iv on a state without a key returns bad_param, leaves the context
\* (offset and counter included) as it was and does not configure the engine.
C6_SetIvWithoutKey ==
  [][(last'.op = "set_iv" /\ ctx[last'.inst].key = 0)
       => /\ last'.ret = srtp_err_status_bad_param
          /\ ctx' = ctx /\ engine' = engine]_vars

C6_Witness ==
  /\ last.op = "set_iv" /\ last.ret = srtp_err_status_bad_param
  /\ ctx[1].live /\ ctx[1].key = 0
  /\ ~engine[ctx[1].hCipher].ctrl.set

\* C7 as stated: an encrypt of a fresh buffer x followed directly by an
\* encrypt of the result, same length, no set_iv in between, gives back x.
C7_SelfInverseNoSetIv ==
  [][\A i \in Inst :
       (/\ last.op = "encrypt" /\ last.inst = i /\ last.fresh
        /\ last.len > 0 /\ last.ret = srtp_err_status_ok
        /\ last'.op = "encrypt" /\ last'.inst = i /\ ~last'.fresh
        /\ last'.len = last.len /\ last'.ret = srtp_err_status_ok)
         => buf'[i] = Plain("P0")]_vars

\* C7 amended: an encrypt of x made directly after set_iv(n), followed by a
\* set_iv with the same nonce n and an encrypt of the result with the same
\* length, gives back x.
C7_SelfInverseAfterSameSetIv ==
  [][\A i \in Inst :
       (/\ last'.op = "encrypt" /\ last'.inst = i /\ ~last'.fresh
        /\ last'.len > 0 /\ last'.ret = srtp_err_status_ok
        /\ last.op = "set_iv" /\ last.inst = i
        /\ last.ret = srtp_err_status_ok
        /\ pkt[i].valid /\ pkt[i].nonce = last.nonce
        /\ pkt[i].len = last'.len)
         => buf'[i] = Plain("P0")]_vars

C7_Witness ==
  /\ last.op = "encrypt" /\ ~last.fresh /\ last.len = 32
  /\ last.ret = srtp_err_status_ok /\ last.engine
  /\ buf[1] = Plain("P0")
  /\ ctx[1].live /\ engine[ctx[1].hCipher].ctrl.set
  /\ engine[ctx[1].hCipher].ctrl.u32IV[16] # 0

\* C8: on one keyed instance, every encrypt of the same input with the same
\* length made directly after a set_iv with the same nonce gives the output
\* the first one gave, whatever set_iv and encrypt calls came between.
C8_SetIvDeterministic ==
  \A i \in Inst :
    (pkt[i].valid /\ memo[i].set /\ pkt[i].nonce = memo[i].nonce
       /\ pkt[i].len = memo[i].len)
      => buf[i] = memo[i].out

C8_Witness ==
  /\ last.op = "encrypt" /\ last.fresh /\ last.ret = srtp_err_status_ok
  /\ pkt[1].valid /\ memo[1].set /\ memo[1].between
  /\ pkt[1].nonce = memo[1].nonce /\ pkt[1].len = memo[1].len
  /\ buf[1] # Plain("P0")

\* C9: encrypt with length 0 returns ok, leaves the buffer as handed in and
\* does not call the engine, whatever the state of the instance.
C9_ZeroLengthNoop ==
  [][\A i \in Inst :
       (last'.op = "encrypt" /\ last'.inst = i /\ last'.len = 0)
         => /\ last'.ret = srtp_err_status_ok /\ ~aborted'
            /\ buf'[i] = (IF last'.fresh THEN Plain("P0") ELSE buf[i])
            /\ ~last'.engine
            /\ engine' = engine /\ ctx' = ctx]_vars

C9_Witness ==
  /\ last.op = "encrypt" /\ last.len = 0 /\ last.ret = srtp_err_status_ok
  /\ ctx[1].live /\ ctx[1].key = 0
  /\ ~engine[ctx[1].hCipher].ctrl.set

\* C10: every encrypt with a length from 1 to 8192 passes the length check
\* and goes on to the engine; only a length above 8192 fails it.
C10_LengthCeiling ==
  /\ (last.op = "encrypt" /\ last.len >= 1 /\ last.len <= 8192)
       => (last.ret # aborted_by_assert /\ last.engine)
  /\ (last.op = "encrypt" /\ last.ret = aborted_by_assert)
       => last.len > 8192
\* every octet of a buffer's contents is zero
AllZero(bytes) == \A j \in 1..Len(bytes) : bytes[j] = 0

\* C11: after a successful dealloc of a state the key buffer it owned is
\* gone: every key buffer that is still allocated belongs to a state that is
\* still allocated, and the call released its buffer only after overwriting
\* it with zeros.
C11_DeallocZeroesAndFreesKey ==
  (last.op = "dealloc" /\ ~last.null /\ last.ret = srtp_err_status_ok)
    => /\ \A b \in KeyBufIds :
            keymem[b].live => \E j \in Inst : ctx[j].live /\ ctx[j].key = b
       /\ \A k \in 1..Len(last.freed) : AllZero(last.freed[k])

\* C12: a context_init on a state that already holds a key releases the old
\* key buffer only after overwriting it with zeros: the contents of every
\* buffer the call released are all zero.
C12_ReinitZeroesOldKey ==
  last.op = "init" => \A k \in 1..Len(last.freed) : AllZero(last.freed[k])

\* C13 as stated: dealloc with a null state changes nothing and returns
\* success.
C13_DeallocNullSucceeds ==
  [][(last'.op = "dealloc" /\ last'.null)
       => /\ last'.ret = srtp_err_status_ok
          /\ UNCHANGED <<cref, cipher, ctx, keymem, engine, aborted>>]_vars

\* C13 amended: dealloc with a null state changes nothing and returns
\* srtp_err_status_bad_param.
C13_DeallocNullRejected ==
  [][(last'.op = "dealloc" /\ last'.null)
       => /\ last'.ret = srtp_err_status_bad_param
          /\ UNCHANGED <<cref, cipher, ctx, keymem, engine, aborted>>]_vars

C13_Witness ==
  /\ last.op = "dealloc" /\ last.null
  /\ last.ret = srtp_err_status_bad_param
  /\ cipher[1].live /\ ctx[1].live /\ ctx[1].key # 0
  /\ engine[ctx[1].hCipher].live
\* C14: an alloc with a valid key length in which one of the two memory
\* allocations or HI_UNF_CIPHER_CreateHandle fails returns
\* srtp_err_status_alloc_fail, leaves NULL in the caller's pointer and leaves
\* allocated exactly what was allocated before the call: no cipher, no
\* context, no key buffer and no engine handle is added.
C14_AllocFailureRollsBack ==
  [][(/\ last'.op = "alloc"
      /\ last'.key_len \in AcceptedKeyLens
      /\ last'.fail \in {"cipher", "ctx", "handle"})
       => /\ last'.ret = srtp_err_status_alloc_fail
          /\ cref'[last'.inst] = "null"
          /\ ~cipher'[last'.inst].live /\ ~ctx'[last'.inst].live
          /\ cipher' = cipher /\ ctx' = ctx
          /\ keymem' = keymem /\ engine' = engine
          /\ ~aborted']_vars

C14_Witness ==
  /\ last.op = "alloc" /\ last.fail = "handle"
  /\ last.ret = srtp_err_status_alloc_fail
  /\ cref[1] = "null" /\ ~cipher[1].live /\ ~ctx[1].live
  /\ \A h \in HandleIds : ~engine[h].live

\* C15: whenever the engine fails the call made by set_iv
\* (HI_UNF_CIPHER_ConfigHandle) or by encrypt (HI_UNF_CIPHER_EncryptVir),
\* the operation returns srtp_err_status_cipher_fail.
C15_EngineFailureIsCipherFail ==
  (last.op \in {"set_iv", "encrypt"} /\ last.res = "error")
    => last.ret = srtp_err_status_cipher_fail
\* C16: two allocated states never hold the same engine handle, and a call
\* on one state leaves the other state's context (key pointer, offset,
\* counter, handle), key buffer, engine configuration and packet buffer as
\* they were; what an encrypt writes is the caller's buffer XORed with the
\* keystream of the state's own handle.
C16_InstancesIndependent ==
  [][\A i \in Inst : \A j \in Inst \ {i} :
       /\ (ctx'[i].live /\ ctx'[j].live) => ctx'[i].hCipher # ctx'[j].hCipher
       /\ (last'.inst = i /\ ~aborted')
            => /\ ctx'[j] = ctx[j] /\ cipher'[j] = cipher[j]
               /\ buf'[j] = buf[j]
               /\ ctx[j].live
                    => /\ engine'[ctx[j].hCipher] = engine[ctx[j].hCipher]
                       /\ ctx[j].key # 0
                            => keymem'[ctx[j].key] = keymem[ctx[j].key]
               /\ (/\ last'.op = "encrypt"
                   /\ last'.ret = srtp_err_status_ok /\ last'.len > 0)
                    => buf'[i] = XorStream(InBuf(i, last'.fresh),
                                           KeyStream(engine[ctx[i].hCipher]),
                                           last'.len)]_vars

C16_Witness ==
  /\ ctx[1].live /\ ctx[2].live
  /\ ctx[1].hCipher # ctx[2].hCipher
  /\ ctx[1].key # 0 /\ ctx[2].key # 0
  /\ keymem[ctx[1].key].bytes # keymem[ctx[2].key].bytes
  /\ engine[ctx[1].hCipher].ctrl.set /\ engine[ctx[2].hCipher].ctrl.set
  /\ engine[ctx[1].hCipher].ctrl.u32Key # engine[ctx[2].hCipher].ctrl.u32Key
  /\ last.op = "encrypt" /\ last.inst = 2 /\ last.ret = srtp_err_status_ok
  /\ buf[1].ks # {} /\ buf[2].ks # {} /\ buf[1] # buf[2]
\* C17: an encrypt with a non-zero length on a state whose handle has not
\* been configured by a successful set_iv does not call the engine's
\* encrypt and does not return srtp_err_status_ok.
C17_EncryptNeedsSetIv ==
  (/\ last.op = "encrypt" /\ last.len > 0 /\ ~aborted
   /\ ctx[last.inst].live
   /\ ~engine[ctx[last.inst].hCipher].ctrl.set)
    => (~last.engine /\ last.ret # srtp_err_status_ok)

\* the handles the engine has handed out and not destroyed
LiveHandles == {h \in HandleIds : engine[h].live}

\* the handles held by the states that are allocated
OwnedHandles == {ctx[i].hCipher : i \in {j \in Inst : ctx[j].live}}

\* C18: after every call the live engine handles are exactly the handles of
\* the allocated states, no two states hold the same handle, a handle comes
\* to life only in a successful alloc that stores it in the new state, and
\* it is destroyed only by the successful dealloc of the state that holds
\* it.
C18_HandleOwnership ==
  [][/\ LiveHandles' = OwnedHandles'
     /\ \A i \in Inst : \A j \in Inst \ {i} :
          (ctx'[i].live /\ ctx'[j].live) => ctx'[i].hCipher # ctx'[j].hCipher
     /\ \A h \in HandleIds :
          /\ (~engine[h].live /\ engine'[h].live)
               => /\ last'.op = "alloc" /\ last'.ret = srtp_err_status_ok
                  /\ ~ctx[last'.inst].live
                  /\ ctx'[last'.inst].live /\ ctx'[last'.inst].hCipher = h
          /\ (engine[h].live /\ ~engine'[h].live /\ ~aborted')
               => /\ last'.op = "dealloc" /\ last'.ret = srtp_err_status_ok
                  /\ ctx[last'.inst].live /\ ctx[last'.inst].hCipher = h
                  /\ ~ctx'[last'.inst].live]_vars

C18_Witness ==
  /\ last.op = "dealloc" /\ last.inst = 1 /\ last.ret = srtp_err_status_ok
  /\ ~ctx[1].live /\ ctx[2].live
  /\ LiveHandles = {ctx[2].hCipher}
  /\ ctx[2].hCipher = 2
\* C19: a set_iv changes no field of the context other than counter, an
\* encrypt changes no field of the context at all (counter included), and
\* neither changes the cipher's parameters or the bytes of any key buffer.
C19_PerPacketFrame ==
  [][\A i \in Inst :
       (last'.inst = i /\ ctx[i].live /\ ~aborted')
         => /\ last'.op = "set_iv"
                 => /\ ctx' = [ctx EXCEPT ![i].counter = ctx'[i].counter]
                    /\ cipher' = cipher /\ keymem' = keymem
            /\ last'.op = "encrypt"
                 => /\ ctx' = ctx
                    /\ cipher' = cipher /\ keymem' = keymem]_vars

C19_Witness ==
  /\ last.op = "encrypt" /\ last.len = 32 /\ last.ret = srtp_err_status_ok
  /\ ctx[1].live /\ ctx[1].key # 0
  /\ engine[ctx[1].hCipher].ctrl.set
  /\ engine[ctx[1].hCipher].used = BlocksOf(32)
  /\ ctx[1].counter # ctx[1].offset
  /\ ctx[1].counter = engine[ctx[1].hCipher].ctrl.u32IV

\* C20: a context_init that returns an error leaves the state without a key
\* (c->key is NULL), and a set_iv that follows it on the same state returns
\* srtp_err_status_bad_param and does not configure the engine.
C20_FailedInitLeavesNoKey ==
  [][/\ (last'.op = "init" /\ last'.ret # srtp_err_status_ok /\ ~aborted')
          => ctx'[last'.inst].key = 0
     /\ (/\ last.op = "init" /\ last.ret # srtp_err_status_ok
         /\ last'.op = "set_iv" /\ last'.inst = last.inst)
          => /\ last'.ret = srtp_err_status_bad_param
             /\ engine' = engine]_vars
\* C21: whenever an encrypt with a non-zero length has called the engine on
\* a keyed state whose handle is configured, the key in the handle's
\* configuration is the key the state's key buffer holds.
C21_EngineKeyIsStoredKey ==
  (/\ last.op = "encrypt" /\ last.len > 0 /\ last.engine /\ ~aborted
   /\ ctx[last.inst].live /\ ctx[last.inst].key # 0
   /\ engine[ctx[last.inst].hCipher].ctrl.set)
    => LET c == ctx[last.inst]
           keybytes == keymem[c.key].bytes
           ctrl == engine[c.hCipher].ctrl
       IN SubSeq(ctrl.u32Key, 1, Len(keybytes)) = keybytes
====
